---- MODULE Spec2Model ----
(***************************************************************************)
(* Model of src/school_center.py: assignment of examination centers to     *)
(* schools.  The state is the module-level state of the script (the sorted *)
(* school list, the center list, the capacity ledger, the allocation map,  *)
(* the count of students not assigned), the position of the main loop and  *)
(* the frame of the allocate_to_centers call in progress.                  *)
(*                                                                         *)
(* Codes are numbers: center k of centers.tsv has cscode k, school k of    *)
(* schools.tsv has scode k, so that schools and centers share codes.       *)
(* Coordinates are not modelled: the row of a school (latitude/longitude   *)
(* empty or not, its haversine distance to each center in whole km, its    *)
(* row of the preference table) is drawn when the main loop reaches the    *)
(* school, which is where the script first reads it.                       *)
(***************************************************************************)
EXTENDS Integers, Sequences, FiniteSets, TLC

\* ------------------------------------------------------------ parameters
PREF_DISTANCE_THRESHOLD == 2
ABS_DISTANCE_THRESHOLD == 7
MIN_STUDENT_IN_CENTER == 10
\* STRETCH_CAPACITY_FACTOR = 0.02, kept as a percentage
STRETCH_CAPACITY_PERCENT == 2
PREF_CUTOFF == -4

\* ---------------------------------------------------------------- bounds
NumSchools == 2
NumCenters == 4

\* values the inputs are drawn from
Counts == {12, 510}
Capacities == {10, 250}
Distances == {1, 3}
PrefScores == {-5, 1}
\* random.uniform(1, 5) of sort_key and random.uniform(1, 100) of
\* school_sort_key: the ends of the two ranges
JitterVals == {1, 5}
RandVals == {1, 100}

SchoolCodes == 1..NumSchools
CenterCodes == 1..NumCenters
Pairs == (SchoolCodes \cup CenterCodes) \X CenterCodes

VARIABLES
    schools,               \* line 246: the sorted list of school rows
    centers,               \* line 247: the list of center rows
    centers_remaining_cap, \* line 248
    remaining,             \* line 251
    allocations,           \* line 252: <<scode, cscode>> -> amount, recorded pairs only
    allocation_file,       \* lines 291-298: the rows written to the output file
    warned,                \* lines 300-303: scode -> amount reported as left (0: no warning)
    pc,                    \* position of the script
    i,                     \* main loop: s = schools[i]
    lat,                   \* s['lat'] / s['long']: "" when a coordinate is empty
    distance_km,           \* haversine distance of s to each center, and
    prefs,                 \* prefs[s['scode']]: cscode -> aggregated score; both held
                           \* while centers_within_distance may still be called for s
    centers_for_school,    \* line 280
    expanded_centers,      \* line 288
    cand,                  \* allocate_to_centers: parameter centers (cscodes, in order)
    k,                     \* allocate_to_centers: position of the for loop
    to_allot,              \* allocate_to_centers: to_allot, returned to the main loop
    per_center,            \* line 183
    stretch,               \* allocate_to_centers: parameter stretch
    allocated_centers,     \* line 182 / 219: keys of the mapping
    alloc_events,          \* history: number of calls of allocate per pair (line 221)
    calls                  \* history: the calls of allocate_to_centers entered so far

vars == <<schools, centers, centers_remaining_cap, remaining, allocations,
          allocation_file, warned, pc, i, lat, distance_km, prefs,
          centers_for_school, expanded_centers, cand, k, to_allot, per_center,
          stretch, allocated_centers, alloc_events, calls>>

\* ---------------------------------------------------------------- helpers
Min(a, b) == IF a <= b THEN a ELSE b
Max(a, b) == IF a >= b THEN a ELSE b

RECURSIVE SumOver(_, _)
SumOver(S, f) ==
    IF S = {} THEN 0
    ELSE LET x == CHOOSE y \in S : TRUE IN f[x] + SumOver(S \ {x}, f)

\* Python's sorted(): ascending by key, stable.  key is a function on 1..n;
\* the result is the permutation p with sorted[j] = input[p[j]].
StableOrder(key) ==
    LET n == Cardinality(DOMAIN key) IN
    CHOOSE p \in [1..n -> 1..n] :
        \A a, b \in 1..n :
            a < b => \/ key[p[a]] < key[p[b]]
                     \/ (key[p[a]] = key[p[b]] /\ p[a] < p[b])

\* ------------------------------------------------ centers_within_distance
\* line 82: a center with the school's own code is passed over
SelfCenter_never(scode, cscode) == FALSE
SelfCenter(scode, cscode) == scode = cscode

\* lines 84-86: the nearest center among the first n centers (0: None)
NearerThan_ties_last(distance, nearest_distance) == distance <= nearest_distance
NearerThan(distance, nearest_distance) == distance < nearest_distance

RECURSIVE NearestCenter(_, _, _)
NearestCenter(n, scode, dist) ==
    IF n = 0 THEN 0
    ELSE LET prev == NearestCenter(n - 1, scode, dist)
             c == centers[n].cscode
         IN  IF SelfCenter(scode, c) THEN prev
             ELSE IF prev = 0 \/ NearerThan(dist[c], dist[prev]) THEN c
             ELSE prev

\* line 88
Qualifies_any_pref(distance, pref, distance_threshold) == distance <= distance_threshold
Qualifies(distance, pref, distance_threshold) ==
    distance <= distance_threshold /\ pref > PREF_CUTOFF

\* line 69: sort_key, with u the value of random.uniform(1, 5)
sort_key(distance, u, pref) == distance * u - pref * 100

\* lines 71-94; jitter gives the value random.uniform(1, 5) takes for each center
centers_within_distance(scode, school_lat, dist, pref, distance_threshold, jitter) ==
    IF school_lat = "" THEN <<>>
    ELSE
      LET codes == [n \in 1..Len(centers) |-> centers[n].cscode]
          In(c) == /\ ~SelfCenter(scode, c)
                   /\ Qualifies(dist[c], pref[c], distance_threshold)
          within_distance == SelectSeq(codes, In)
          key == [n \in 1..Len(within_distance) |->
                    sort_key(dist[within_distance[n]], jitter[within_distance[n]],
                             pref[within_distance[n]])]
          p == StableOrder(key)
      IN  IF Len(within_distance) > 0
          THEN [n \in 1..Len(within_distance) |-> within_distance[p[n]]]
          ELSE <<NearestCenter(Len(centers), scode, dist)>>

\* ---------------------------------------------------------- the allocator
\* lines 144-153
calc_per_center(count) == IF count <= 400 THEN 100 ELSE 200

\* line 159, with u the value of random.uniform(1, 100)
school_sort_key_no_bias(count, u) == u
school_sort_key(count, u) == (IF count > 500 THEN -1 ELSE 1) * u

\* lines 162-171
allocate_first_write_wins(alloc, scode, cscode, count) ==
    IF <<scode, cscode>> \notin DOMAIN alloc
    THEN [q \in DOMAIN alloc \cup {<<scode, cscode>>} |->
            IF q = <<scode, cscode>> THEN count ELSE alloc[q]]
    ELSE alloc
allocate_overwrite(alloc, scode, cscode, count) ==
    [q \in DOMAIN alloc \cup {<<scode, cscode>>} |->
        IF q = <<scode, cscode>> THEN count ELSE alloc[q]]
allocate(alloc, scode, cscode, count) ==
    IF <<scode, cscode>> \notin DOMAIN alloc
    THEN [q \in DOMAIN alloc \cup {<<scode, cscode>>} |->
            IF q = <<scode, cscode>> THEN count ELSE alloc[q]]
    ELSE [alloc EXCEPT ![<<scode, cscode>>] = @ + count]

\* lines 174-178
is_allocated_same_pair(scode1, scode2) == <<scode2, scode1>> \in DOMAIN allocations
is_allocated(scode1, scode2) == <<scode1, scode2>> \in DOMAIN allocations

CapacityOf(cscode) == (CHOOSE c \in {centers[n] : n \in 1..Len(centers)} : c.cscode = cscode).capacity

\* line 207: math.floor(int(center['capacity']) * STRETCH_CAPACITY_FACTOR + centers_cap_left)
StretchedCapacity_of_full_capacity(capacity, centers_cap_left) ==
    (capacity * STRETCH_CAPACITY_PERCENT) \div 100 + capacity
StretchedCapacity(capacity, centers_cap_left) ==
    (capacity * STRETCH_CAPACITY_PERCENT) \div 100 + centers_cap_left

\* lines 208 and 211
next_allot_ignoring_demand(allot, percenter, centers_cap_left, stretched_capacity, st) ==
    IF st THEN Max(stretched_capacity, MIN_STUDENT_IN_CENTER)
    ELSE Min(percenter, Max(centers_cap_left, MIN_STUDENT_IN_CENTER))
next_allot_no_floor(allot, percenter, centers_cap_left, stretched_capacity, st) ==
    IF st THEN Min(allot, stretched_capacity)
    ELSE Min(allot, Min(percenter, centers_cap_left))
next_allot(allot, percenter, centers_cap_left, stretched_capacity, st) ==
    IF st THEN Min(allot, Max(stretched_capacity, MIN_STUDENT_IN_CENTER))
    ELSE Min(allot, Min(percenter, Max(centers_cap_left, MIN_STUDENT_IN_CENTER)))

\* line 213, centers_cap_left being the stretched capacity in a stretch call (line 209)
Admitted_unchecked(allot, nxt, centers_cap_left) == allot > 0 /\ nxt > 0
Admitted(allot, nxt, centers_cap_left) ==
    allot > 0 /\ nxt > 0 /\ centers_cap_left >= nxt

\* line 214
Redirected(nxt, used) == nxt < MIN_STUDENT_IN_CENTER /\ Cardinality(used) > 0

\* ------------------------------------------------------------------ Init
NoDistance == [c \in CenterCodes |-> 0]
NoPrefs == [c \in CenterCodes |-> 0]
NoAllocation == [q \in {} |-> 0]

\* a row of the aggregated preference table: at most one center has a score
PrefRows ==
    {NoPrefs} \cup {[c \in CenterCodes |-> IF c = x THEN v ELSE 0] :
                        x \in CenterCodes, v \in PrefScores}

\* centers.tsv lists the centers by capacity; the order in which a school meets
\* them is free all the same, through its distances and the jitter
CapacityLists ==
    {f \in [CenterCodes -> Capacities] : \A a, b \in CenterCodes : a < b => f[a] <= f[b]}

Init ==
    /\ \E count \in [SchoolCodes -> Counts], u \in [SchoolCodes -> RandVals] :
         LET key == [n \in SchoolCodes |-> school_sort_key(count[n], u[n])]
             p == StableOrder(key)
         IN  schools = [n \in SchoolCodes |-> [scode |-> p[n], count |-> count[p[n]]]]
    /\ \E capacity \in CapacityLists :
         centers = [n \in CenterCodes |-> [cscode |-> n, capacity |-> capacity[n]]]
    /\ centers_remaining_cap = [c \in CenterCodes |-> CapacityOf(c)]
    /\ remaining = 0
    /\ allocations = NoAllocation
    /\ allocation_file = {}
    /\ warned = [s \in SchoolCodes |-> 0]
    /\ pc = "loop"
    /\ i = 1
    /\ lat = ""
    /\ distance_km = NoDistance
    /\ prefs = NoPrefs
    /\ centers_for_school = <<>>
    /\ expanded_centers = <<>>
    /\ cand = <<>>
    /\ k = 1
    /\ to_allot = 0
    /\ per_center = 0
    /\ stretch = FALSE
    /\ allocated_centers = {}
    /\ alloc_events = [q \in Pairs |-> 0]
    /\ calls = <<>>

\* --------------------------------------------------------------- actions
\* lines 279-285: the next school; its candidates at the preferred distance; the
\* normal call of allocate_to_centers begins (lines 182-183).  The entries of the
\* row that the script never reads (the distance and score of the school's own
\* code, every distance of a school without coordinates) have one fixed value.
StartSchool ==
    /\ pc = "loop"
    /\ i <= Len(schools)
    /\ \E school_lat \in {"", "27.7"}, dist \in [CenterCodes -> Distances],
          pref \in PrefRows, jitter \in [CenterCodes -> JitterVals] :
         LET s == schools[i]
             d == IF school_lat = "" THEN NoDistance ELSE dist
             list == centers_within_distance(s.scode, school_lat, d, pref,
                                             PREF_DISTANCE_THRESHOLD, jitter)
         IN  /\ school_lat = "" => (dist = [c \in CenterCodes |-> 1] /\ pref = NoPrefs)
             /\ s.scode \in CenterCodes => (pref[s.scode] = 0 /\ dist[s.scode] = 1)
             /\ lat' = school_lat
             /\ distance_km' = d
             /\ prefs' = pref
             /\ centers_for_school' = list
             /\ cand' = list
             /\ to_allot' = s.count
             /\ per_center' = calc_per_center(s.count)
    /\ expanded_centers' = <<>>
    /\ k' = 1
    /\ stretch' = FALSE
    /\ allocated_centers' = {}
    /\ pc' = "alloc"
    /\ calls' = Append(calls, [scode |-> schools[i].scode, stretch |-> FALSE])
    /\ UNCHANGED <<schools, centers, centers_remaining_cap, remaining, allocations,
                   allocation_file, warned, i, alloc_events>>

\* lines 185-223: one iteration of the for loop of allocate_to_centers
AllocStep ==
    /\ pc = "alloc"
    /\ k <= Len(cand)
    /\ LET school_code == schools[i].scode
           center_code == cand[k]
           cap_left == centers_remaining_cap[center_code]
           stretched_capacity == StretchedCapacity(CapacityOf(center_code), cap_left)
           nxt == next_allot(to_allot, per_center, cap_left, stretched_capacity, stretch)
           centers_cap_left == IF stretch THEN stretched_capacity ELSE cap_left
           allocate_center_code ==
               IF Redirected(nxt, allocated_centers) THEN cand[1] ELSE center_code
       IN  IF ~is_allocated(center_code, school_code)
              /\ Admitted(to_allot, nxt, centers_cap_left)
           THEN /\ allocated_centers' =
                      IF Redirected(nxt, allocated_centers) THEN allocated_centers
                      ELSE allocated_centers \cup {center_code}
                /\ allocations' = allocate(allocations, school_code, allocate_center_code, nxt)
                /\ alloc_events' =
                      [alloc_events EXCEPT ![<<school_code, allocate_center_code>>] = @ + 1]
                /\ to_allot' = to_allot - nxt
                /\ centers_remaining_cap' =
                      [centers_remaining_cap EXCEPT ![center_code] = @ - nxt]
           ELSE UNCHANGED <<allocated_centers, allocations, alloc_events, to_allot,
                            centers_remaining_cap>>
    /\ k' = k + 1
    /\ UNCHANGED <<schools, centers, remaining, allocation_file, warned, pc, i, lat,
                   distance_km, prefs, centers_for_school, expanded_centers, cand,
                   per_center, stretch, calls>>

\* line 225 of the normal call, then lines 287-288: with a remainder the candidates
\* at the absolute distance are computed for the relaxed call
ReturnNormal ==
    /\ pc = "alloc"
    /\ k > Len(cand)
    /\ ~stretch
    /\ IF to_allot > 0
       THEN /\ \E jitter \in [CenterCodes -> JitterVals] :
                 expanded_centers' =
                     centers_within_distance(schools[i].scode, lat, distance_km, prefs,
                                             ABS_DISTANCE_THRESHOLD, jitter)
            /\ pc' = "call_relaxed"
            /\ UNCHANGED <<distance_km, prefs>>
       ELSE /\ pc' = "write"
            /\ distance_km' = NoDistance
            /\ prefs' = NoPrefs
            /\ UNCHANGED expanded_centers
    /\ UNCHANGED <<schools, centers, centers_remaining_cap, remaining, allocations,
                   allocation_file, warned, i, lat, centers_for_school, cand, k,
                   to_allot, per_center, stretch, allocated_centers, alloc_events, calls>>

\* line 289 as written: allocate_to_centers has no parameter stretch_capacity, the
\* call raises TypeError and the script ends
RelaxedCallRaises ==
    /\ pc = "call_relaxed"
    /\ pc' = "error"
    /\ distance_km' = NoDistance
    /\ prefs' = NoPrefs
    /\ UNCHANGED <<schools, centers, centers_remaining_cap, remaining, allocations,
                   allocation_file, warned, i, lat,
                   centers_for_school, expanded_centers, cand, k, to_allot, per_center,
                   stretch, allocated_centers, alloc_events, calls>>

\* allocate_to_centers entered with stretch=True on the expanded candidates
\* (lines 181-183), the call line 289 is written to make
StretchCall ==
    /\ pc = "call_relaxed"
    /\ cand' = expanded_centers
    /\ per_center' = calc_per_center(to_allot)
    /\ k' = 1
    /\ stretch' = TRUE
    /\ allocated_centers' = {}
    /\ pc' = "alloc"
    /\ distance_km' = NoDistance
    /\ prefs' = NoPrefs
    /\ UNCHANGED <<schools, centers, centers_remaining_cap, remaining, allocations,
                   allocation_file, warned, i, lat,
                   centers_for_school, expanded_centers, to_allot, alloc_events>>
    /\ calls' = Append(calls, [scode |-> schools[i].scode, stretch |-> TRUE])

\* line 225 of a stretch call
ReturnStretch ==
    /\ pc = "alloc"
    /\ k > Len(cand)
    /\ stretch
    /\ pc' = "write"
    /\ UNCHANGED <<schools, centers, centers_remaining_cap, remaining, allocations,
                   allocation_file, warned, i, lat, distance_km, prefs,
                   centers_for_school, expanded_centers, cand, k, to_allot, per_center,
                   stretch, allocated_centers, alloc_events, calls>>

\* lines 291-303: the allocation rows of the school, its shortfall, the next school
WriteAllocations ==
    /\ pc = "write"
    /\ LET scode == schools[i].scode IN
         /\ allocation_file' = allocation_file \cup
               {<<scode, c, allocations[<<scode, c>>]>> : c \in allocated_centers}
         /\ IF to_allot > 0
            THEN /\ remaining' = remaining + to_allot
                 /\ warned' = [warned EXCEPT ![scode] = to_allot]
            ELSE UNCHANGED <<remaining, warned>>
    /\ i' = i + 1
    /\ pc' = "loop"
    /\ lat' = ""
    /\ distance_km' = NoDistance
    /\ prefs' = NoPrefs
    /\ centers_for_school' = <<>>
    /\ expanded_centers' = <<>>
    /\ cand' = <<>>
    /\ k' = 1
    /\ to_allot' = 0
    /\ per_center' = 0
    /\ stretch' = FALSE
    /\ allocated_centers' = {}
    /\ UNCHANGED <<schools, centers, centers_remaining_cap, allocations, alloc_events, calls>>

\* lines 305-310: the end-of-run summary
Summary ==
    /\ pc = "loop"
    /\ i > Len(schools)
    /\ pc' = "done"
    /\ UNCHANGED <<schools, centers, centers_remaining_cap, remaining, allocations,
                   allocation_file, warned, i, lat, distance_km, prefs,
                   centers_for_school, expanded_centers, cand, k, to_allot, per_center,
                   stretch, allocated_centers, alloc_events, calls>>

\* the script as written
Next ==
    \/ StartSchool
    \/ AllocStep
    \/ ReturnNormal
    \/ RelaxedCallRaises
    \/ WriteAllocations
    \/ Summary

Spec == Init /\ [][Next]_vars

\* the script, and allocate_to_centers called with stretch=True
NextStretch ==
    \/ StartSchool
    \/ AllocStep
    \/ ReturnNormal
    \/ RelaxedCallRaises
    \/ StretchCall
    \/ ReturnStretch
    \/ WriteAllocations
    \/ Summary

SpecStretch == Init /\ [][NextStretch]_vars

\* ------------------------------------------------------------ quantities
\* the school the main loop is at, while it is at one
InSchool == pc \in {"alloc", "call_relaxed", "write", "error"}
Current == schools[i]

\* students recorded in the allocation map for a center, and for a school
CenterLoad(c) == SumOver({q \in DOMAIN allocations : q[2] = c}, allocations)
SchoolAllocated(s) == SumOver({q \in DOMAIN allocations : q[1] = s}, allocations)

StretchAllowance(c) == (CapacityOf(c) * STRETCH_CAPACITY_PERCENT) \div 100
StretchCallMade == \E n \in 1..Len(calls) : calls[n].stretch

\* ------------------------------------------------------------------ C1
\* C1, as claimed: for every center the students recorded for it in the
\* allocation map are at most its capacity, and at most its capacity plus
\* floor(capacity * STRETCH_CAPACITY_FACTOR) once a stretch call was made.
C1_CapacityInvariant ==
    \A c \in CenterCodes :
        CenterLoad(c) <= CapacityOf(c) + (IF StretchCallMade THEN StretchAllowance(c) ELSE 0)

\* ------------------------------------------------------------------ C2
\* C2, as claimed: the remaining capacity of a center is never negative.
C2_NeverNegative == \A c \in CenterCodes : centers_remaining_cap[c] >= 0

\* C2, amended: a step of a non-stretch call that consumes capacity of a center
\* leaves the center's remaining capacity at zero or more; only a stretch call
\* takes it below zero.
C2_NonStretchStaysNonNegative ==
    [][\A c \in CenterCodes :
          (~stretch /\ centers_remaining_cap'[c] < centers_remaining_cap[c])
              => centers_remaining_cap'[c] >= 0]_vars

\* a stretch call has taken a center below zero, and a later non-stretch call has
\* consumed capacity of another center
C2_Witness ==
    /\ \E c \in CenterCodes : centers_remaining_cap[c] < 0
    /\ pc = "alloc" /\ ~stretch
    /\ \E c \in allocated_centers : centers_remaining_cap[c] >= 0

\* ------------------------------------------------------------------ C3
\* C3: for every school the recorded allocations sum to at most its student
\* count; to_allot is never negative and, during and after the school's calls,
\* equals count minus the recorded sum; for a school whose passes are finished
\* that difference is the amount reported as left for it, and the total of
\* students not assigned is the sum of these amounts.
C3_DemandInvariant ==
    /\ \A n \in 1..Len(schools) : SchoolAllocated(schools[n].scode) <= schools[n].count
    /\ to_allot >= 0
    /\ InSchool => Current.count - SchoolAllocated(Current.scode) = to_allot
    /\ \A n \in 1..Len(schools) :
          n < i => schools[n].count - SchoolAllocated(schools[n].scode) = warned[schools[n].scode]
    /\ remaining = SumOver({schools[n].scode : n \in 1..(i - 1)}, warned)

\* the run has ended; a school was allocated in part, in both of its passes, and
\* its remainder is the total of students not assigned
C3_Witness ==
    /\ pc = "done"
    /\ \E n \in 1..Len(schools) :
          /\ warned[schools[n].scode] > 0
          /\ SchoolAllocated(schools[n].scode) > 0
          /\ remaining >= warned[schools[n].scode]
          /\ \E m \in 1..Len(calls) : calls[m].stretch /\ calls[m].scode = schools[n].scode

\* ------------------------------------------------------------------ C4
\* C4, as claimed: a (school, center) pair receives at most one allocation event
\* per run.
C4_AtMostOneEvent == \A q \in Pairs : alloc_events[q] <= 1

\* C4, amended: the center that allocate_to_centers passes over is one for which
\* the reverse pair is recorded (the center, as a school, holds an allocation at
\* the school's code as a center): that iteration leaves the allocation map, the
\* outstanding count and every remaining capacity unchanged.
C4_ReversePairSkipped ==
    [][(pc = "alloc" /\ k <= Len(cand) /\ <<cand[k], Current.scode>> \in DOMAIN allocations)
          => /\ allocations' = allocations
             /\ to_allot' = to_allot
             /\ centers_remaining_cap' = centers_remaining_cap]_vars

\* the iteration before this one passed over a center that could have taken
\* students: the reverse pair is recorded, students are outstanding and the
\* center has room for a minimum batch
C4_Witness ==
    /\ pc = "alloc" /\ k > 1 /\ k <= Len(cand) + 1
    /\ <<cand[k - 1], Current.scode>> \in DOMAIN allocations
    /\ to_allot > 0
    /\ centers_remaining_cap[cand[k - 1]] >= MIN_STUDENT_IN_CENTER

\* ------------------------------------------------------------------ C5
\* C5: no candidate list of a school holds a center with the school's code, and
\* the allocation map never holds a pair of a school with its own code.
C5_SelfExclusion ==
    /\ InSchool =>
          /\ \A n \in 1..Len(centers_for_school) : centers_for_school[n] # Current.scode
          /\ \A n \in 1..Len(expanded_centers) : expanded_centers[n] # Current.scode
          /\ \A n \in 1..Len(cand) : cand[n] # Current.scode
    /\ \A q \in DOMAIN allocations : q[1] # q[2]

\* a school that is also a center has two candidates and holds a pair that
\* received a redirect
C5_Witness ==
    /\ InSchool
    /\ Current.scode \in CenterCodes
    /\ Len(centers_for_school) >= 2
    /\ \E c \in CenterCodes : alloc_events[<<Current.scode, c>>] >= 2

\* ------------------------------------------------------------------ C6
\* the row of the school is in the state: the lists can be compared with it
RowKnown == (pc = "alloc" /\ ~stretch) \/ pc = "call_relaxed"
QualifyingSet(threshold) ==
    {c \in CenterCodes : /\ c # Current.scode
                         /\ distance_km[c] <= threshold
                         /\ prefs[c] > PREF_CUTOFF}
\* the center of minimum distance among those with another code, the first in
\* input order among equals
IsNearest(c) ==
    /\ c \in CenterCodes /\ c # Current.scode
    /\ \A o \in CenterCodes \ {Current.scode} :
          distance_km[c] < distance_km[o] \/ (distance_km[c] = distance_km[o] /\ c <= o)
FallbackOf(list, threshold) ==
    QualifyingSet(threshold) = {} => (Len(list) = 1 /\ IsNearest(list[1]))

\* C6, as claimed: for every school and threshold the candidate list is not
\* empty, and is the single nearest center when no center qualifies.
C6_AlwaysNonEmpty ==
    /\ InSchool => Len(centers_for_school) > 0
    /\ pc = "call_relaxed" => Len(expanded_centers) > 0
    /\ (RowKnown /\ lat # "") => FallbackOf(centers_for_school, PREF_DISTANCE_THRESHOLD)
    /\ (pc = "call_relaxed" /\ lat # "") => FallbackOf(expanded_centers, ABS_DISTANCE_THRESHOLD)

\* C6, amended: for every school with a latitude and a longitude (and a center
\* of another code) the candidate list is not empty, and is the single nearest
\* center when no center qualifies.
C6_FallbackGuarantee ==
    /\ (InSchool /\ lat # "") => Len(centers_for_school) > 0
    /\ (pc = "call_relaxed" /\ lat # "") => Len(expanded_centers) > 0
    /\ (RowKnown /\ lat # "") => FallbackOf(centers_for_school, PREF_DISTANCE_THRESHOLD)
    /\ (pc = "call_relaxed" /\ lat # "") => FallbackOf(expanded_centers, ABS_DISTANCE_THRESHOLD)

\* no center qualifies, two centers are equally near, and the one nearer still is
\* below the preference cutoff: the list is that single center
C6_Witness ==
    /\ RowKnown /\ lat # ""
    /\ QualifyingSet(PREF_DISTANCE_THRESHOLD) = {}
    /\ Len(centers_for_school) = 1
    /\ \/ prefs[centers_for_school[1]] <= PREF_CUTOFF
       \/ \E o \in CenterCodes \ {Current.scode, centers_for_school[1]} :
             distance_km[o] = distance_km[centers_for_school[1]]

\* ------------------------------------------------------------------ C7
Ranked(list) ==
    \A a, b \in 1..Len(list) :
        a < b => \/ prefs[list[a]] > prefs[list[b]]
                 \/ /\ prefs[list[a]] = prefs[list[b]]
                    /\ distance_km[list[a]] <= distance_km[list[b]]

\* C7, as claimed: a list of two or more qualifying centers is ordered by
\* preference score descending, then by distance ascending, whatever the jitter.
C7_Ranking ==
    /\ (RowKnown /\ Len(centers_for_school) >= 2) => Ranked(centers_for_school)
    /\ (pc = "call_relaxed" /\ Len(expanded_centers) >= 2) => Ranked(expanded_centers)

\* ------------------------------------------------------------------ C8
Large(n) == schools[n].count > 500

\* C8: in the processing order no school of 500 students or fewer comes before a
\* school of more than 500, and no such school holds an allocation while a
\* school of more than 500 has not finished its passes.
C8_LargeFirst ==
    /\ \A a, b \in 1..Len(schools) : a < b => ~(~Large(a) /\ Large(b))
    /\ \A a, b \in 1..Len(schools) :
          (Large(a) /\ ~Large(b) /\ a >= i /\ pc # "loop")
              => SchoolAllocated(schools[b].scode) = 0
    /\ \A a, b \in 1..Len(schools) :
          (Large(a) /\ ~Large(b) /\ a >= i)
              => \A n \in 1..Len(calls) : calls[n].scode # schools[b].scode

\* a school of more than 500 was second in the input and has finished; a smaller
\* school, first in the input, is being allocated after it
C8_Witness ==
    /\ i = 2 /\ pc = "alloc"
    /\ Large(1) /\ ~Large(2)
    /\ schools[1].scode > schools[2].scode
    /\ SchoolAllocated(schools[2].scode) > 0

\* ------------------------------------------------------------------ C9
\* C9, as claimed: no error state is reached, whatever remainder a school has
\* after its normal pass.
C9_NoErrorState == pc # "error"

\* ------------------------------------------------------------------ C10
\* C10, as claimed: a school with an empty latitude or longitude has empty
\* candidate lists, its processing is not an error and changes neither the
\* remaining capacities nor the allocation map, and once it is processed its
\* whole student count is reported as left.
C10_MissingCoordinates ==
    /\ (InSchool /\ lat = "") =>
          /\ centers_for_school = <<>> /\ expanded_centers = <<>>
          /\ SchoolAllocated(Current.scode) = 0
          /\ to_allot = Current.count
          /\ pc # "error"

\* ------------------------------------------------------------------ C11
BelowCutoff(c) == prefs[c] <= PREF_CUTOFF
CutoffIn(list, threshold) ==
    \A n \in 1..Len(list) :
        BelowCutoff(list[n]) =>
            /\ Len(list) = 1
            /\ QualifyingSet(threshold) = {}
            /\ IsNearest(list[n])

LastCall == calls[Len(calls)]

\* the calls entered so far: a stretch call directly follows the normal call of
\* the same school, and a school gets one normal call
CallsInOrder ==
    \A n \in 1..Len(calls) :
        IF calls[n].stretch
        THEN n > 1 /\ ~calls[n - 1].stretch /\ calls[n - 1].scode = calls[n].scode
        ELSE \A m \in 1..(n - 1) : calls[m].scode # calls[n].scode

\* C12, as claimed: each school gets a normal call on the preferred-distance
\* candidates, then a stretch call on the expanded candidates if and only if
\* the normal call returned a remainder; a stretch call is entered with a
\* remainder, the calls of a school are over before the next school's, and no
\* school gets a third call.
C12_TwoPassOrdering ==
    /\ CallsInOrder
    /\ (pc = "alloc" /\ ~stretch) => cand = centers_for_school
    /\ (pc = "alloc" /\ stretch) =>
          /\ cand = expanded_centers
          /\ k = 1 => to_allot > 0
    /\ InSchool => LastCall.scode = Current.scode
    /\ (pc \in {"write", "error"} /\ to_allot > 0) => LastCall.stretch

\* ------------------------------------------------------------------ C13
\* C13, as claimed: every center holding an amount recorded by the call of
\* allocate_to_centers in progress or just returned is a key of the call's
\* used-centers mapping; a redirected sliver lands on a center already used.
C13_RedirectMergesIntoUsed ==
    (InSchool /\ ~stretch) =>
        \A c \in CenterCodes :
            alloc_events[<<Current.scode, c>>] > 0 => c \in allocated_centers

\* ------------------------------------------------------------------ C14
Recorded(q) == IF q \in DOMAIN allocations THEN allocations[q] ELSE 0

\* C14, as claimed: a pair that has a recorded amount keeps it; a call of
\* allocate for a recorded pair changes nothing.
C14_FirstWriteWins ==
    [][\A q \in DOMAIN allocations : allocations'[q] = allocations[q]]_vars

\* C14, amended: a call of allocate adds its count to the amount recorded for the
\* pair (nothing recorded counting as zero), also when the pair already has an
\* amount, and leaves every other pair as it was.
C14_RepeatedWriteAdds ==
    [][\A q \in Pairs :
          IF alloc_events'[q] > alloc_events[q]
          THEN /\ q \in DOMAIN allocations'
               /\ allocations'[q] = Recorded(q) + (to_allot - to_allot')
          ELSE /\ q \in DOMAIN allocations' <=> q \in DOMAIN allocations
               /\ q \in DOMAIN allocations => allocations'[q] = allocations[q]]_vars

\* allocate was called twice for a pair, which holds the sum of the two counts
C14_Witness ==
    \E q \in DOMAIN allocations :
        /\ alloc_events[q] = 2
        /\ allocations[q] = 12
        /\ to_allot = 0

\* ------------------------------------------------------------------ C15
\* the amount of an allocation event: what the step took off to_allot
Allotted == to_allot - to_allot'
AllocEvent == \E q \in Pairs : alloc_events'[q] > alloc_events[q]

\* C15: every allocation event, in a normal or a stretch call, has an amount of
\* at least MIN_STUDENT_IN_CENTER or takes all that the school still has to
\* allot; a non-stretch call leaves alone a center whose remaining capacity is
\* below both MIN_STUDENT_IN_CENTER and the school's outstanding remainder.
C15_MinimumBatch ==
    [][/\ AllocEvent => (Allotted >= MIN_STUDENT_IN_CENTER \/ to_allot' = 0)
       /\ \A c \in CenterCodes :
             (/\ pc = "alloc" /\ ~stretch
              /\ centers_remaining_cap[c] < MIN_STUDENT_IN_CENTER
              /\ centers_remaining_cap[c] < to_allot)
                 => centers_remaining_cap'[c] = centers_remaining_cap[c]]_vars

\* a non-stretch call has just passed a center that has some capacity left,
\* fewer than MIN_STUDENT_IN_CENTER and fewer than the school still has to allot
C15_Witness ==
    /\ pc = "alloc" /\ ~stretch
    /\ k > 1 /\ k <= Len(cand) + 1
    /\ centers_remaining_cap[cand[k - 1]] > 0
    /\ centers_remaining_cap[cand[k - 1]] < MIN_STUDENT_IN_CENTER
    /\ centers_remaining_cap[cand[k - 1]] < to_allot
    /\ ~is_allocated(cand[k - 1], Current.scode)

\* ------------------------------------------------------------------ C16
\* C16: the remaining capacity of a center never goes below
\* -floor(capacity * STRETCH_CAPACITY_FACTOR), however many schools stretch the
\* center, and it goes from zero or more to less than zero only in a step of a
\* stretch call.
C16_BoundedStretch ==
    /\ [](\A c \in CenterCodes : centers_remaining_cap[c] >= -StretchAllowance(c))
    /\ [][\A c \in CenterCodes :
             (centers_remaining_cap[c] >= 0 /\ centers_remaining_cap'[c] < 0)
                 => (pc = "alloc" /\ stretch)]_vars

\* a stretch call of a second school has passed a center that the stretch call
\* of the first school had taken below zero
C16_Witness ==
    /\ pc = "alloc" /\ stretch
    /\ i > 1
    /\ k > 1 /\ k <= Len(cand) + 1
    /\ to_allot > 0
    /\ centers_remaining_cap[cand[k - 1]] < 0
    /\ alloc_events[<<Current.scode, cand[k - 1]>>] = 0
    /\ alloc_events[<<schools[1].scode, cand[k - 1]>>] > 0

\* ------------------------------------------------------------------ C17
\* capacity taken from the ledger, amounts in the allocation map, students
CapacityConsumed ==
    SumOver(CenterCodes, [c \in CenterCodes |-> CapacityOf(c) - centers_remaining_cap[c]])
TotalRecorded == SumOver(DOMAIN allocations, allocations)
TotalStudents == SumOver(1..Len(schools), [n \in 1..Len(schools) |-> schools[n].count])

\* C17: the capacity consumed from the ledger, summed over the centers, equals
\* the sum of the amounts in the allocation map in every state, and at the end of
\* the run both equal the sum of the student counts minus the reported number
\* of students not assigned.
C17_GlobalConservation ==
    /\ CapacityConsumed = TotalRecorded
    /\ pc = "done" => TotalRecorded = TotalStudents - remaining

\* the run is over; a redirected sliver was added to a recorded pair, a center
\* was stretched below zero and some students were not assigned
C17_Witness ==
    /\ pc = "done"
    /\ remaining > 0
    /\ \E q \in DOMAIN allocations : alloc_events[q] >= 2
    /\ \E c \in CenterCodes : centers_remaining_cap[c] < 0

\* ------------------------------------------------------------------ C18
\* C18, as claimed: the allocation map never holds an amount for school A at
\* center B together with an amount for school B at center A, amounts
\* recorded through the redirect to the first candidate included.
C18_NoMutualAllocation ==
    \A q \in DOMAIN allocations : <<q[2], q[1]>> \notin DOMAIN allocations

\* ------------------------------------------------------------------ C19
RowsOf(scode) == {r \in allocation_file : r[1] = scode}
CentersRecorded(scode) == {c \in CenterCodes : <<scode, c>> \in DOMAIN allocations}

\* C19, as claimed: for every school whose passes are over, the centers of the
\* allocation rows written for it are the centers holding a recorded amount for
\* it in the allocation map, and the amounts written sum to its student count
\* minus its reported shortfall.
C19_OutputComplete ==
    \A n \in 1..(i - 1) :
        LET scode == schools[n].scode
            rows == RowsOf(scode)
        IN  /\ {r[2] : r \in rows} = CentersRecorded(scode)
            /\ SumOver(rows, [r \in rows |-> r[3]]) = schools[n].count - warned[scode]

====
